---- MODULE Spec2Model ----
(***************************************************************************)
(* Model of fetch_repositories (extraction/github_filtered_exporter.py):   *)
(* the star-window collector that pages through the search API and writes  *)
(* one CSV row per repository.  The API is the environment: every response *)
(* (status, exception, item list) is chosen nondeterministically.          *)
(***************************************************************************)
EXTENDS Integers, Sequences, FiniteSets, TLC

\* Scaled-down values of the program's configuration (source: TARGET_TOTAL 10000,
\* PAGES_PER_QUERY 10, initial current_max_stars 500000, RESULTS_PER_PAGE 100).
TARGET_TOTAL == 2
PAGES_PER_QUERY == 2
INITIAL_MAX_STARS == 2

RESULTS_PER_PAGE == 2

\* Longest item list a response carries.
MaxItems == 2

\* Largest repository set behind a faithful API, and largest target of a run
\* against it.
MaxRepos == 5
MaxTarget == 5

\* stargazers_count values the API may return: 0 is the default of a missing
\* key, INITIAL_MAX_STARS + 1 is a value above every ceiling (the API is not
\* trusted to honour the stars:<= filter or the sort order).
StarValues == 0..(INITIAL_MAX_STARS + 1)

\* Item lists of a successful response, by length.
ItemLists(n) == [1..n -> StarValues]

VARIABLES
    pc,                 \* "outer" (line 55), "page" (line 72), "advance" (line 124), "done"
    page,               \* the for loop's page variable
    current_max_stars,  \* the window ceiling
    last_star_count,    \* tracked value of the pass
    total_saved,        \* saved count
    rows,               \* data rows written (stars column), header excluded
    requests,           \* history: number of requests issued
    windows,            \* history: ceiling at the start of each outer-loop pass
    lastReq,            \* history: <<page, ceiling>> of the last request issued
    lastStatus,         \* history: kind of the last response
    only403,            \* history: every response so far was a 403
    only200,            \* history: every response so far was a 200 that was processed
    passBase,           \* history: number of rows written when the current pass began
    repos,              \* the repository set behind a faithful API (stars, in serving order)
    written,            \* history: <<repository, ceiling>> of each row a faithful API fed
    item,               \* the source item of the row being built
    target              \* the run's configured target (TARGET_TOTAL)

vars == <<pc, page, current_max_stars, last_star_count, total_saved, rows,
          requests, windows, lastReq, lastStatus, only403, only200, passBase,
          repos, written, item, target>>

\* What the collector's steps never touch: the configuration, the API's data and
\* its bookkeeping.
env == <<repos, written, item, target>>

collection == <<total_saved, rows, current_max_stars, last_star_count>>

\* The collector's own state on entry to the while loop.
ProgramInit ==
    /\ pc = "outer"
    /\ page = 0
    /\ current_max_stars = INITIAL_MAX_STARS
    /\ last_star_count = INITIAL_MAX_STARS
    /\ total_saved = 0
    /\ rows = <<>>
    /\ requests = 0
    /\ windows = <<>>
    /\ lastReq = <<0, 0>>
    /\ lastStatus = "none"
    /\ only403 = TRUE
    /\ only200 = TRUE
    /\ passBase = 0
    /\ written = <<>>
    /\ item = <<>>

\* A run against an API that answers arbitrarily.
Init ==
    /\ ProgramInit
    /\ target = TARGET_TOTAL
    /\ repos = <<>>

\* The request of lines 62-72 is issued: history bookkeeping shared by every
\* response action.
Issue(status) ==
    /\ requests' = requests + 1
    /\ lastReq' = <<page, current_max_stars>>
    /\ lastStatus' = status
    /\ only403' = (only403 /\ status = "403")
    /\ only200' = (only200 /\ status \in {"ok", "empty"})

\* The for statement takes the next value of range(1, PAGES_PER_QUERY + 1),
\* or the loop is exhausted and control falls to line 124.
NextPage ==
    IF page < PAGES_PER_QUERY
    THEN pc' = "page" /\ page' = page + 1
    ELSE pc' = "advance" /\ page' = page

\* break out of the for loop.
BreakInner ==
    pc' = "advance" /\ page' = page

\* Variant: the page counter is set once, before the while loop, and not per pass.
StartPassKeepsPage ==
    /\ pc = "outer"
    /\ IF total_saved < target
       THEN /\ last_star_count' = current_max_stars
            /\ windows' = Append(windows, current_max_stars)
            /\ passBase' = total_saved
            /\ pc' = "page"
            /\ page' = IF page = 0 THEN 1 ELSE page
       ELSE /\ pc' = "done"
            /\ UNCHANGED <<last_star_count, windows, page, passBase>>
    /\ UNCHANGED <<current_max_stars, total_saved, rows, requests, lastReq,
                   lastStatus, only403, only200, env>>

\* while total_saved < TARGET_TOTAL: last_star_count = current_max_stars; for page in ...
StartPass ==
    /\ pc = "outer"
    /\ IF total_saved < target
       THEN /\ last_star_count' = current_max_stars
            /\ windows' = Append(windows, current_max_stars)
            /\ passBase' = total_saved
            /\ IF PAGES_PER_QUERY >= 1
               THEN pc' = "page" /\ page' = 1
               ELSE pc' = "advance" /\ page' = page
       ELSE /\ pc' = "done"
            /\ UNCHANGED <<last_star_count, windows, page, passBase>>
    /\ UNCHANGED <<current_max_stars, total_saved, rows, requests, lastReq,
                   lastStatus, only403, only200, env>>

\* Variant: the rate-limit branch moves the window down before continuing.
RateLimitedLowersCeiling ==
    /\ pc = "page"
    /\ Issue("403")
    /\ NextPage
    /\ current_max_stars' = current_max_stars - 1
    /\ UNCHANGED <<total_saved, rows, last_star_count, windows, passBase, env>>

\* status_code == 403: sleep, continue.
RateLimited ==
    /\ pc = "page"
    /\ Issue("403")
    /\ NextPage
    /\ UNCHANGED <<collection, windows, passBase, env>>

\* Variant: a non-success status continues with the next page instead of breaking.
HttpErrorContinues ==
    /\ pc = "page"
    /\ Issue("error")
    /\ NextPage
    /\ UNCHANGED <<collection, windows, passBase, env>>

\* status_code other than 200 and 403: break.
HttpError ==
    /\ pc = "page"
    /\ Issue("error")
    /\ BreakInner
    /\ UNCHANGED <<collection, windows, passBase, env>>

\* requests.get or response.json() raises: except Exception, break.
RequestException ==
    /\ pc = "page"
    /\ Issue("exception")
    /\ BreakInner
    /\ UNCHANGED <<collection, windows, passBase, env>>

\* Variant: an empty page continues with the next page instead of breaking.
EmptyPageContinues ==
    /\ pc = "page"
    /\ Issue("empty")
    /\ NextPage
    /\ UNCHANGED <<collection, windows, passBase, env>>

\* 200 with no items: break.
EmptyPage ==
    /\ pc = "page"
    /\ Issue("empty")
    /\ BreakInner
    /\ UNCHANGED <<collection, windows, passBase, env>>

\* Variant: the item loop without the quota test of lines 89-90.
RECURSIVE ProcessItemsNoQuota(_, _, _, _, _, _)
ProcessItemsNoQuota(items, bad, i, saved, rws, last) ==
    IF i > Len(items)
    THEN [saved |-> saved, rows |-> rws, last |-> last, raised |-> FALSE]
    ELSE IF i = bad
    THEN [saved |-> saved, rows |-> rws, last |-> last, raised |-> TRUE]
    ELSE ProcessItemsNoQuota(items, bad, i + 1, saved + 1, Append(rws, items[i]), items[i])

\* Variant: the row is written field by field, so a failing item leaves a row.
RECURSIVE ProcessItemsWritesBad(_, _, _, _, _, _)
ProcessItemsWritesBad(items, bad, i, saved, rws, last) ==
    IF i > Len(items)
    THEN [saved |-> saved, rows |-> rws, last |-> last, raised |-> FALSE]
    ELSE IF saved >= target
    THEN [saved |-> saved, rows |-> rws, last |-> last, raised |-> FALSE]
    ELSE IF i = bad
    THEN [saved |-> saved, rows |-> Append(rws, items[i]), last |-> last, raised |-> TRUE]
    ELSE ProcessItemsWritesBad(items, bad, i + 1, saved + 1, Append(rws, items[i]), items[i])

\* for repo in items: ... (lines 88-107).  bad is the index of an item on which
\* extraction raises (0: none).  The result says whether the loop raised.
RECURSIVE ProcessItems(_, _, _, _, _, _)
ProcessItems(items, bad, i, saved, rws, last) ==
    IF i > Len(items)
    THEN [saved |-> saved, rows |-> rws, last |-> last, raised |-> FALSE]
    ELSE IF saved >= target
    THEN [saved |-> saved, rows |-> rws, last |-> last, raised |-> FALSE]
    ELSE IF i = bad
    THEN [saved |-> saved, rows |-> rws, last |-> last, raised |-> TRUE]
    ELSE ProcessItems(items, bad, i + 1, saved + 1, Append(rws, items[i]), items[i])

\* Variant: the page loop without the quota test of lines 111-112.
AfterItemsNoQuotaBreak(r) ==
    IF r.raised
    THEN BreakInner
    ELSE NextPage

\* Control after the item loop: exception -> break; quota met -> break;
\* otherwise sleep and take the next page.
AfterItems(r) ==
    IF r.raised \/ r.saved >= target
    THEN BreakInner
    ELSE NextPage

\* The collector's handling of a 200 whose item list is items (lines 82-119).
HandleItems(items, bad) ==
    LET r == ProcessItems(items, bad, 1, total_saved, rows, last_star_count) IN
    /\ total_saved' = r.saved
    /\ rows' = r.rows
    /\ last_star_count' = r.last
    /\ Issue(IF r.raised THEN "exception" ELSE "ok")
    /\ AfterItems(r)

\* 200 with a non-empty item list.
ItemsPage ==
    /\ pc = "page"
    /\ \E n \in 1..MaxItems : \E items \in ItemLists(n) : \E bad \in 0..n :
         HandleItems(items, bad)
    /\ UNCHANGED <<current_max_stars, windows, passBase, env>>

\* Variant: the ceiling always becomes the tracked value (no saturation branch).
NextCeilingNoSaturation(c, L) ==
    L

\* Variant: the saturation test written > instead of >=.
NextCeilingStrict(c, L) ==
    IF L > c THEN c - 1 ELSE L

\* Variant: one is subtracted in both branches.
NextCeilingAlwaysBelow(c, L) ==
    IF L >= c THEN c - 1 ELSE L - 1

\* Lines 124-127: the new ceiling from the ceiling c and the tracked value L.
NextCeiling(c, L) ==
    IF L >= c THEN c - 1 ELSE L

\* Variant: no stop at zero (lines 129-131 missing).
AfterAdvanceNoFloor(c) ==
    "outer"

\* Lines 129-131 and the while test: where control goes with the new ceiling.
AfterAdvance(c) ==
    IF c <= 0 THEN "done" ELSE "outer"

\* Move the star window down, then stop at zero.
AdvanceWindow ==
    /\ pc = "advance"
    /\ current_max_stars' = NextCeiling(current_max_stars, last_star_count)
    /\ pc' = AfterAdvance(current_max_stars')
    /\ UNCHANGED <<page, last_star_count, total_saved, rows, requests, windows,
                   lastReq, lastStatus, only403, only200, passBase, env>>

Next ==
    \/ StartPass
    \/ RateLimited
    \/ HttpError
    \/ RequestException
    \/ EmptyPage
    \/ ItemsPage
    \/ AdvanceWindow

Spec == Init /\ [][Next]_vars

\* The program is sequential and every step it can take is taken.
FairSpec == Spec /\ WF_vars(Next)

(***************************************************************************)
(* Row extraction (lines 40-43 and 92-104): one item of a response becomes  *)
(* one row.  JSON values are tagged records; a JSON object (a Python dict)  *)
(* is a function from its keys to values.                                   *)
(***************************************************************************)

JNull == [kind |-> "null"]
JStr(s) == [kind |-> "str", s |-> s]
JInt(n) == [kind |-> "int", n |-> n]
JObj(d) == [kind |-> "obj", d |-> d]

\* The dict with no keys.
EmptyDict == <<>>

csv_headers ==
    <<"name", "full_name", "url", "description", "stars",
      "forks", "open_issues", "created_at", "updated_at", "license_name">>

\* dict.get(key, default); the one-argument form has default None.
Get(d, k, default) ==
    IF k \in DOMAIN d THEN d[k] ELSE default

\* str(value), for the values a description takes.
Str(v) ==
    IF v = JNull THEN JStr("None") ELSE v

\* .replace("\n", " "), for the strings of the model.
ReplaceNewlines(v) ==
    IF v = JStr("fast\nrouter") THEN JStr("fast router") ELSE v

\* Python truth value of a license value: None and {} are false.
Falsy(v) ==
    v = JNull \/ v = JObj(EmptyDict)

\* Variant: the license name is read without the 'N/A' default.
RowNoPlaceholder(repo) ==
    LET lic == Get(repo, "license", JNull)
        licd == IF Falsy(lic) THEN EmptyDict ELSE lic.d
    IN  <<Get(repo, "name", JNull),
          Get(repo, "full_name", JNull),
          Get(repo, "html_url", JNull),
          ReplaceNewlines(Str(Get(repo, "description", JStr("")))),
          Get(repo, "stargazers_count", JInt(0)),
          Get(repo, "forks_count", JNull),
          Get(repo, "open_issues_count", JNull),
          Get(repo, "created_at", JNull),
          Get(repo, "updated_at", JNull),
          Get(licd, "name", JNull)>>

\* The list handed to writer.writerow (lines 92-104).
Row(repo) ==
    LET lic == Get(repo, "license", JNull)
        licd == IF Falsy(lic) THEN EmptyDict ELSE lic.d
    IN  <<Get(repo, "name", JNull),
          Get(repo, "full_name", JNull),
          Get(repo, "html_url", JNull),
          ReplaceNewlines(Str(Get(repo, "description", JStr("")))),
          Get(repo, "stargazers_count", JInt(0)),
          Get(repo, "forks_count", JNull),
          Get(repo, "open_issues_count", JNull),
          Get(repo, "created_at", JNull),
          Get(repo, "updated_at", JNull),
          Get(licd, "name", JStr("N/A"))>>

\* Dicts that carry key k with one of the values vals, or do not carry it.
Optional(k, vals) ==
    {EmptyDict} \cup {k :> v : v \in vals}

LicenseValues ==
    { JNull,
      JObj(EmptyDict),
      JObj("key" :> JStr("other")),
      JObj("key" :> JStr("mit") @@ "name" :> JStr("MIT License")),
      JObj("key" :> JStr("odd") @@ "name" :> JNull) }

\* The items a response may carry.
Items ==
    { [full_name |-> JStr("gin-gonic/gin"),
       html_url |-> JStr("https://github.com/gin-gonic/gin"),
       open_issues_count |-> JInt(7),
       created_at |-> JStr("2014-06-16T23:57:25Z"),
       updated_at |-> JStr("2024-01-01T00:00:00Z")] @@ n @@ d @@ st @@ f @@ l :
        n \in Optional("name", {JStr("gin")}),
        d \in Optional("description", {JNull, JStr("router"), JStr("fast\nrouter")}),
        st \in Optional("stargazers_count", {JInt(0), JInt(120)}),
        f \in Optional("forks_count", {JInt(5)}),
        l \in Optional("license", LicenseValues) }

\* One item is extracted and its row written.
BuildRow ==
    /\ \E repo \in Items :
         /\ item' = repo
         /\ rows' = <<Row(repo)>>
    /\ UNCHANGED <<pc, page, current_max_stars, last_star_count, total_saved,
                   requests, windows, lastReq, lastStatus, only403, only200,
                   passBase, repos, written, target>>

RowNext ==
    BuildRow

RowSpec == Init /\ [][RowNext]_vars

(***************************************************************************)
(* A faithful API: a fixed repository set, every response a 200 carrying    *)
(* the repositories with stars <= ceiling, in descending order of stars,    *)
(* per_page to a page.  A repository is its position in repos, the order    *)
(* in which the API serves equal stars.                                     *)
(***************************************************************************)

\* Repository sets of n repositories, in serving order.
RepoSets(n) ==
    {s \in [1..n -> StarValues] : \A i \in 1..(n - 1) : s[i] >= s[i + 1]}

\* The repositories matching q = "language:go stars:<=c", in sort order.
Matching(c) ==
    SelectSeq([i \in 1..Len(repos) |-> i], LAMBDA i : repos[i] <= c)

\* The response to the request of lines 62-69: page p of the matches, per_page
\* to a page (the repositories' positions).
Served(c, p) ==
    LET m == Matching(c)
        lo == (p - 1) * RESULTS_PER_PAGE + 1
        hi == IF p * RESULTS_PER_PAGE < Len(m) THEN p * RESULTS_PER_PAGE ELSE Len(m)
    IN  IF lo > hi THEN <<>> ELSE SubSeq(m, lo, hi)

\* A run against a faithful API.
FaithfulInit ==
    /\ ProgramInit
    /\ target \in 1..MaxTarget
    /\ \E n \in 0..MaxRepos : repos \in RepoSets(n)

\* The page is empty: the window is exhausted.
FaithfulEmpty ==
    /\ pc = "page"
    /\ Served(current_max_stars, page) = <<>>
    /\ EmptyPage

\* The page carries items: they are processed, and the repositories whose rows
\* were written are logged with the pass they were written in.
FaithfulItems ==
    /\ pc = "page"
    /\ LET ids == Served(current_max_stars, page) IN
         /\ ids # <<>>
         /\ HandleItems([k \in 1..Len(ids) |-> repos[ids[k]]], 0)
         /\ written' = written \o
               [k \in 1..(total_saved' - total_saved) |-> <<ids[k], Len(windows)>>]
    /\ UNCHANGED <<current_max_stars, windows, passBase, repos, item, target>>

FaithfulNext ==
    \/ StartPass
    \/ FaithfulEmpty
    \/ FaithfulItems
    \/ AdvanceWindow

FaithfulSpec == FaithfulInit /\ [][FaithfulNext]_vars

(***************************************************************************)
(* Properties                                                              *)
(***************************************************************************)

IsPrefix(s, t) ==
    /\ Len(s) <= Len(t)
    /\ \A i \in 1..Len(s) : s[i] = t[i]

\* C1: the number of data rows written never exceeds TARGET_TOTAL, whatever
\* the API answers.
C1_RowsAtMostTarget ==
    /\ Len(rows) <= TARGET_TOTAL
    /\ total_saved <= TARGET_TOTAL

\* A page was cut short: the quota was met by a successful page.
C1_Witness ==
    /\ Len(rows) = TARGET_TOTAL
    /\ lastStatus = "ok"
    /\ pc = "advance"

\* C2 (as claimed): after a rate-limit response the next request has the same
\* page number and the same ceiling as the rate-limited one.
C2_RetrySamePage ==
    (lastStatus = "403" /\ pc = "page") => <<page, current_max_stars>> = lastReq

\* C3: the ceilings at the start of successive outer-loop passes decrease by at
\* least 1 each, and the ceiling never exceeds the one the current pass began
\* with.
C3_CeilingStrictlyDecreases ==
    /\ \A i \in 2..Len(windows) : windows[i] <= windows[i - 1] - 1
    /\ Len(windows) > 0 => current_max_stars <= windows[Len(windows)]

\* A second pass began after a pass that wrote an item above its ceiling.
C3_Witness ==
    /\ Len(windows) >= 2
    /\ \E i \in 1..Len(rows) : rows[i] > windows[1]

\* C4: the run terminates, after at most INITIAL_MAX_STARS outer-loop passes.
C4_Terminates ==
    /\ <>(pc = "done")
    /\ [](Len(windows) <= INITIAL_MAX_STARS)

\* The run ended after exactly INITIAL_MAX_STARS passes, having seen a rate
\* limit and later written a row.
C4_Witness ==
    /\ pc = "done"
    /\ Len(windows) = INITIAL_MAX_STARS
    /\ ~only403
    /\ total_saved > 0

\* C5 (as claimed): a run in which every response was a rate limit has not
\* terminated.
C5_StallsForever ==
    (only403 /\ requests > 0) => pc # "done"

\* C6: once the saved count has reached the target there are exactly
\* TARGET_TOTAL rows, and no step issues a request or writes a row.
C6_QuotaStops ==
    [][total_saved >= TARGET_TOTAL =>
          /\ Len(rows) = TARGET_TOTAL
          /\ requests' = requests
          /\ rows' = rows
          /\ pc' \in {"outer", "done"}]_vars

\* The first page met the quota and the run ended after that one request.
C6_Witness ==
    /\ pc = "done"
    /\ requests = 1
    /\ Len(rows) = TARGET_TOTAL

\* C7: after a pass that began with ceiling c and ended with tracked value L,
\* the ceiling is c - 1 if L >= c and L otherwise.
C7_AdvanceRule ==
    (pc \in {"outer", "done"} /\ Len(windows) > 0) =>
        LET c == windows[Len(windows)]
            L == last_star_count
        IN  current_max_stars = IF L >= c THEN c - 1 ELSE L

\* Two consecutive saturated passes, each lowering the ceiling by exactly 1.
C7_Witness ==
    /\ pc \in {"outer", "done"}
    /\ Len(windows) = 2
    /\ windows[2] = windows[1] - 1
    /\ last_star_count >= windows[2]
    /\ current_max_stars = windows[1] - 2

\* C8: every request is issued with a ceiling in 1..INITIAL_MAX_STARS, and the
\* run has stopped whenever the ceiling is zero or below.
C8_CeilingPositive ==
    /\ pc = "page" => current_max_stars \in 1..INITIAL_MAX_STARS
    /\ requests > 0 => lastReq[2] \in 1..INITIAL_MAX_STARS
    /\ \A i \in 1..Len(windows) : windows[i] \in 1..INITIAL_MAX_STARS
    /\ current_max_stars <= 0 => pc = "done"

\* The run stopped at ceiling zero after issuing requests, quota not met.
C8_Witness ==
    /\ pc = "done"
    /\ current_max_stars <= 0
    /\ requests > 0
    /\ total_saved < TARGET_TOTAL

\* C9: the step that handles a rate-limit response leaves the saved count, the
\* rows, the ceiling and the tracked value unchanged.
C9_RateLimitFrame ==
    [][(requests' # requests /\ lastStatus' = "403") => UNCHANGED collection]_vars

\* A rate limit was handled in a pass that had already written a row.
C9_Witness ==
    /\ lastStatus = "403"
    /\ Len(rows) > 0
    /\ last_star_count < current_max_stars

\* C10: a non-success status other than 403, or an exception, ends the window's
\* pagination: control goes to the window advance with the rows written so far
\* kept, and the next request, if any, is page 1 with a lower ceiling.
C10_ErrorAbortsWindow ==
    /\ [][(requests' # requests /\ lastStatus' \in {"error", "exception"}) =>
            /\ pc' = "advance"
            /\ IsPrefix(rows, rows')
            /\ current_max_stars' = current_max_stars]_vars
    /\ []((lastStatus \in {"error", "exception"} /\ pc = "page") =>
            (page = 1 /\ current_max_stars < lastReq[2]))

\* After an exception in a pass that had written a row, page 1 of a new window.
C10_Witness ==
    /\ lastStatus = "exception"
    /\ pc = "page"
    /\ page = 1
    /\ Len(rows) > 0

\* C11 (as claimed): after a successful response with no items the ceiling is
\* lowered by exactly 1.
C11_EmptyDecrementsByOne ==
    (lastStatus = "empty" /\ pc \in {"outer", "done"}) =>
        current_max_stars = lastReq[2] - 1

\* C11 (amended): an empty page ends the window's pagination without writing a
\* row; the ceiling then follows the window rule: c - 1 when the tracked value
\* is not below c (always so when the window wrote no row), the tracked value
\* otherwise; the next request, if any, is page 1 of the lower window.
C11_EmptyAbortsWindow ==
    /\ [][(requests' # requests /\ lastStatus' = "empty") =>
            (pc' = "advance" /\ UNCHANGED collection)]_vars
    /\ []((lastStatus = "empty" /\ pc \in {"outer", "done"}) =>
            /\ current_max_stars = IF last_star_count >= lastReq[2]
                                   THEN lastReq[2] - 1
                                   ELSE last_star_count
            /\ Len(rows) = passBase => current_max_stars = lastReq[2] - 1)
    /\ []((lastStatus = "empty" /\ pc = "page") =>
            (page = 1 /\ current_max_stars < lastReq[2]))

\* An empty page after a page of the same window that wrote a row well below
\* the ceiling: the ceiling dropped by more than 1.
C11_Witness ==
    /\ lastStatus = "empty"
    /\ pc \in {"outer", "done"}
    /\ Len(rows) > passBase
    /\ current_max_stars < lastReq[2] - 1

\* Smallest element of a non-empty set of integers.
SetMin(S) ==
    CHOOSE m \in S : \A x \in S : m <= x

\* C12 (as claimed): at the end of a pass of successful responses the tracked
\* value is the minimum of the pass's ceiling and the stars of the rows written
\* during the pass.
C12_TracksLowest ==
    (pc = "advance" /\ only200) =>
        last_star_count =
            SetMin({windows[Len(windows)]} \cup
                   {rows[i] : i \in (passBase + 1)..Len(rows)})

\* C13: the saved count equals the number of rows written; a page whose
\* processing raised kept the earlier rows and wrote no row for the failing
\* item.
C13_SavedEqualsRows ==
    /\ [](total_saved = Len(rows))
    /\ [][(requests' # requests /\ lastStatus' = "exception") =>
            /\ IsPrefix(rows, rows')
            /\ Len(rows') - Len(rows) <= MaxItems - 1
            /\ total_saved' - total_saved = Len(rows') - Len(rows)]_vars

\* Extraction failed on a later item of a page whose earlier item was written.
C13_Witness ==
    /\ lastStatus = "exception"
    /\ pc = "advance"
    /\ Len(rows) = passBase + 1
    /\ requests = 1

\* C14: a request's page number is in 1..PAGES_PER_QUERY; within a window it is
\* not below the previous request's; the first request of a window is page 1.
C14_PageNumbers ==
    /\ pc = "page" => page \in 1..PAGES_PER_QUERY
    /\ requests > 0 => lastReq[1] \in 1..PAGES_PER_QUERY
    /\ (pc = "page" /\ requests > 0 /\ lastReq[2] = current_max_stars) =>
           page >= lastReq[1]
    /\ (pc = "page" /\ (requests = 0 \/ lastReq[2] # current_max_stars)) =>
           page = 1

\* A new window begins at page 1 after the previous one used its last page.
C14_Witness ==
    /\ pc = "page"
    /\ page = 1
    /\ requests > 0
    /\ lastReq[1] = PAGES_PER_QUERY
    /\ lastReq[2] > current_max_stars

\* The source key each column of csv_headers is read from.
SourceKey ==
    [name |-> "name", full_name |-> "full_name", url |-> "html_url",
     description |-> "description", stars |-> "stargazers_count",
     forks |-> "forks_count", open_issues |-> "open_issues_count",
     created_at |-> "created_at", updated_at |-> "updated_at",
     license_name |-> "license"]

\* The item has no license (key absent, or null), or its license has no name key.
NoLicenseName(repo) ==
    \/ "license" \notin DOMAIN repo
    \/ repo["license"] = JNull
    \/ "name" \notin DOMAIN repo["license"].d

WrittenRepos ==
    {written[j][1] : j \in 1..Len(written)}

\* Each ranking value is shared by fewer than page_size * max_pages repositories.
FewPerValue ==
    \A v \in StarValues :
        Cardinality({i \in 1..Len(repos) : repos[i] = v})
            < RESULTS_PER_PAGE * PAGES_PER_QUERY

\* C16 (as claimed): with few repositories per ranking value, a run that ended
\* at ceiling zero with the quota unmet has written every repository with stars
\* <= the initial ceiling, and a run that ended on quota has written every
\* repository with more stars than the lowest row written.
C16_Coverage ==
    (pc = "done" /\ FewPerValue) =>
        IF total_saved < target
        THEN \A i \in 1..Len(repos) :
                 repos[i] <= INITIAL_MAX_STARS => i \in WrittenRepos
        ELSE \A i \in 1..Len(repos) :
                 (repos[i] <= INITIAL_MAX_STARS
                    /\ repos[i] > SetMin({rows[k] : k \in 1..Len(rows)}))
                 => i \in WrittenRepos

\* Pass k ended saturated: no row written in it has stars below its ceiling.
Saturated(k) ==
    \A j \in 1..Len(written) :
        written[j][2] = k => repos[written[j][1]] >= windows[k]

\* C17: against a faithful API a repository written again has stars equal to the
\* ceiling of the later pass; no row has stars above the ceiling of its pass or
\* of an earlier pass; and the pass after a saturated pass writes no repository
\* that was written before.
C17_BoundaryDuplicates ==
    /\ \A i, j \in 1..Len(written) :
           (i < j /\ written[i][1] = written[j][1]) =>
               /\ written[i][2] < written[j][2]
               /\ repos[written[j][1]] = windows[written[j][2]]
    /\ \A j \in 1..Len(written) : \A k \in 1..written[j][2] :
           repos[written[j][1]] <= windows[k]
    /\ \A k \in 1..(Len(windows) - 1) :
           Saturated(k) =>
               \A i, j \in 1..Len(written) :
                   (i < j /\ written[j][2] = k + 1) => written[i][1] # written[j][1]

\* A finished run that wrote a repository twice: first in a pass that went
\* below its ceiling, then at the top of the next pass.
C17_Witness ==
    /\ pc = "done"
    /\ \E i, j \in 1..Len(written) :
           /\ i < j
           /\ written[i][1] = written[j][1]
           /\ written[j][2] = written[i][2] + 1
           /\ ~Saturated(written[i][2])
====
